---------------------------- MODULE Spec2Model ----------------------------
(***************************************************************************)
(* A model of src/main3.py, OptimizedServerMonitor: the stats cache, the   *)
(* network rate estimator, the usage classifier, the two animation         *)
(* cursors and the render loop of run().                                   *)
(*                                                                         *)
(* Time is counted in tenths of a second: every value of time.time() is an *)
(* integer number of tenths, and the intervals of the source are written   *)
(* in tenths (1.0 s is 10).  Each call of time.time() in the source is a   *)
(* separate reading of the clock; a reading is the previous reading plus a *)
(* delta the environment chooses.                                          *)
(*                                                                         *)
(* determine_usage_level computes with Python floats; they are modelled as *)
(* IEEE-754 doubles (53-bit significand, round to nearest, ties to even).  *)
(***************************************************************************)
EXTENDS Integers, Sequences, FiniteSets, TLC

VARIABLES
    clock,                \* the last value time.time() returned
    pc,                   \* where run() is: in the loop "tick", "status", "sleep"; in the
                          \* except clause "goodbye", "pause", "cleanup"; left: "stopped"
                          \* (returned), "crashed" (an exception), "aborted" (a second
                          \* KeyboardInterrupt); "classify" in SpecClassify
    gif_sets,             \* self.gif_sets: level -> sequence of frames
    gif_frame,            \* self.update_intervals['gif_frame']
    current_usage_level,  \* self.current_usage_level
    current_frame,        \* self.current_frame
    last_frame_time,      \* self.last_frame_time
    current_info_page,    \* self.current_info_page
    page_change_time,     \* self.page_change_time
    prev_net_io,          \* self.prev_net_io
    prev_net_time,        \* self.prev_net_time
    net_up_speed,         \* self.net_up_speed
    net_down_speed,       \* self.net_down_speed
    cached_stats,         \* self.cached_stats
    last_stats_update,    \* self.last_stats_update
    disk,                 \* self.disk_percent, self.disk_free_gb, self.disk_total_gb
    cpu_temp,             \* self.cpu_temp
    process_count,        \* self.process_count
    attrs,                \* which of these attributes exist: hasattr(self, ...)
    last_status_time,     \* run()'s local last_status_time
    drawn,                \* history: what the last update_display drew, and (was) the
                          \* level and frame index before it
    calls,                \* history: the clock readings and queries of the last step, and
                          \* what the Metrics Source held
    sampled_at,           \* history: the reading of the call that last queried each slow group
                          \* and, under "top", the process table
    gif_directory,        \* what is found at <gif_directory>/<level>.gif, per level
    device,               \* self.device: what it shows, and whether cleanup() was called
    stopping,             \* history: the interrupts delivered and the renders since the first
    env                   \* the ranges of the Metrics Source, the assets and the clock in this run

vars == <<clock, pc, gif_sets, gif_frame, current_usage_level, current_frame,
          last_frame_time, current_info_page, page_change_time, prev_net_io,
          prev_net_time, net_up_speed, net_down_speed, cached_stats,
          last_stats_update, disk, cpu_temp, process_count, attrs,
          last_status_time, drawn, calls, sampled_at, gif_directory, device,
          stopping, env>>

None == [none |-> TRUE]   \* Python's None, and "no such call" in the history
Never == 0 - 1            \* in the history: no reading of the clock
Ok(v) == [ok |-> TRUE, v |-> v]       \* a Metrics Source call that returns v
Failed == [ok |-> FALSE, v |-> 0]     \* a Metrics Source call that raises
NoTable == [ok |-> FALSE, v |-> <<>>] \* psutil.process_iter raises

Levels == {"low", "medium", "high"}
usage_levels == <<"low", "medium", "high">>
info_pages == <<"system", "storage", "network", "processes">>

-----------------------------------------------------------------------------
(* Python floats.  A double is [neg, m]: its sign and its magnitude as a    *)
(* fixed-point number of NumLimbs limbs of LimbBits bits, most significant  *)
(* limb first, the first limb holding the integer part.  Every double the   *)
(* classifier meets (quotients by 100, 1000 and 3 of numbers below         *)
(* LimbBase, and their sums) is such a number exactly.                      *)

MantissaBits == 53
LimbBits == 15
NumLimbs == 10
LimbBase == 2 ^ LimbBits

BigZero == [i \in 1..NumLimbs |-> 0]
BigInt(n) == [i \in 1..NumLimbs |-> IF i = 1 THEN n ELSE 0]
BigPow2(k) ==
    [i \in 1..NumLimbs |->
        IF i = NumLimbs - (k \div LimbBits) THEN 2 ^ (k % LimbBits) ELSE 0]

BigCmp(a, b) ==
    LET D == {i \in 1..NumLimbs : a[i] # b[i]}
    IN  IF D = {} THEN 0
        ELSE LET i == CHOOSE j \in D : \A k \in D : j <= k
             IN  IF a[i] > b[i] THEN 1 ELSE -1

RECURSIVE AddRec(_, _, _, _, _)
AddRec(a, b, i, c, acc) ==
    IF i = 0 THEN acc
    ELSE AddRec(a, b, i - 1, (a[i] + b[i] + c) \div LimbBase,
                <<(a[i] + b[i] + c) % LimbBase>> \o acc)
BigAdd(a, b) == AddRec(a, b, NumLimbs, 0, <<>>)

RECURSIVE SubRec(_, _, _, _, _)
SubRec(a, b, i, c, acc) ==
    IF i = 0 THEN acc
    ELSE SubRec(a, b, i - 1, IF a[i] - b[i] - c < 0 THEN 1 ELSE 0,
                <<(a[i] - b[i] - c + LimbBase) % LimbBase>> \o acc)
BigSub(a, b) == SubRec(a, b, NumLimbs, 0, <<>>)

RECURSIVE DivRec(_, _, _, _, _)
DivRec(a, d, i, r, q) ==
    IF i > NumLimbs THEN <<q, r>>
    ELSE DivRec(a, d, i + 1, (r * LimbBase + a[i]) % d,
                Append(q, (r * LimbBase + a[i]) \div d))
BigDivMod(a, d) == DivRec(a, d, 1, 0, <<>>)

BitLen(a) ==
    IF a = BigZero THEN 0
    ELSE LET i == CHOOSE j \in 1..NumLimbs : a[j] # 0 /\ \A k \in 1..(j - 1) : a[k] = 0
             n == CHOOSE j \in 1..LimbBits : 2 ^ (j - 1) <= a[i] /\ a[i] < 2 ^ j
         IN  (NumLimbs - i) * LimbBits + n

BigLow(a, s) ==
    [i \in 1..NumLimbs |->
        LET lo == (NumLimbs - i) * LimbBits
        IN  IF lo + LimbBits <= s THEN a[i]
            ELSE IF lo >= s THEN 0
            ELSE a[i] % (2 ^ (s - lo))]

BigBit(a, k) == (a[NumLimbs - (k \div LimbBits)] \div (2 ^ (k % LimbBits))) % 2

\* the magnitude a (plus a non-zero part below its last bit when sticky)
\* rounded to MantissaBits significant bits, to nearest, ties to even;
\* s: the number of bits to drop, low: their value, c: low against half a unit
RoundsUp(a, sticky, s, c) == c > 0 \/ (c = 0 /\ (sticky \/ BigBit(a, s) = 1))

RoundTo(trunc, s, up) == IF up THEN BigAdd(trunc, BigPow2(s)) ELSE trunc

RoundLow(a, sticky, s, low) ==
    RoundTo(BigSub(a, low), s, RoundsUp(a, sticky, s, BigCmp(low, BigPow2(s - 1))))

RoundAt(a, sticky, s) == IF s <= 0 THEN a ELSE RoundLow(a, sticky, s, BigLow(a, s))

RoundNearestEven(a, sticky) == RoundAt(a, sticky, BitLen(a) - MantissaBits)

Float(n) == [neg |-> n < 0, m |-> BigInt(IF n < 0 THEN -n ELSE n)]

FCmp(x, y) ==
    IF (x.neg /\ x.m # BigZero) # (y.neg /\ y.m # BigZero)
    THEN (IF x.neg THEN -1 ELSE 1)
    ELSE IF x.neg /\ x.m # BigZero THEN BigCmp(y.m, x.m) ELSE BigCmp(x.m, y.m)

FGe(x, y) == FCmp(x, y) >= 0

\* Python's min(x, y)
FMin(x, y) == IF FCmp(y, x) < 0 THEN y ELSE x

\* x + y
FAdd(x, y) ==
    [neg |-> IF x.neg = y.neg \/ BigCmp(x.m, y.m) >= 0 THEN x.neg ELSE y.neg,
     m |-> RoundNearestEven(IF x.neg = y.neg THEN BigAdd(x.m, y.m)
                            ELSE IF BigCmp(x.m, y.m) >= 0 THEN BigSub(x.m, y.m)
                            ELSE BigSub(y.m, x.m), FALSE)]

\* x / d for a double d that is a whole number
Quotient(neg, qr) == [neg |-> neg, m |-> RoundNearestEven(qr[1], qr[2] # 0)]

FDiv(x, d) == Quotient(x.neg, BigDivMod(x.m, d))

\* the float literals of determine_usage_level: the doubles nearest 0.7, 0.5, 0.4, 0.3
HighEnter == FDiv(Float(7), 10)
HighStay == FDiv(Float(5), 10)
MediumEnter == FDiv(Float(4), 10)
MediumStay == FDiv(Float(3), 10)
FOne == Float(1)

-----------------------------------------------------------------------------
(* determine_usage_level *)

avg_usage(stats) ==
    FDiv(FAdd(FAdd(FMin(FDiv(Float(stats.cpu_percent), 100), FOne),
                   FMin(FDiv(Float(stats.memory_percent), 100), FOne)),
              FMin(FDiv(Float(stats.net_up_speed + stats.net_down_speed), 1000), FOne)),
         3)

\* the if/elif/else of determine_usage_level on avg_usage
LevelOf(avg) ==
    IF FGe(avg, HighEnter) \/ (current_usage_level = "high" /\ FGe(avg, HighStay))
    THEN "high"
    ELSE IF FGe(avg, MediumEnter)
            \/ (current_usage_level = "medium" /\ FGe(avg, MediumStay))
    THEN "medium"
    ELSE "low"

determine_usage_level(stats) == LevelOf(avg_usage(stats))

-----------------------------------------------------------------------------
(* The intervals of the source, in tenths of a second *)

StatsInterval == 10       \* update_intervals['stats'] = 1.0
GifFrameDefault == 1      \* update_intervals['gif_frame'] = 0.1
PageRotate == 30          \* update_intervals['page_rotate'] = 3.0
NetworkInterval == 10     \* update_intervals['network'] = 1.0
DiskInterval == 300       \* disk: current_time - self.last_stats_update > 30
TempInterval == 50        \* temperature: ... > 5
ProcInterval == 100       \* process count: ... > 10
StatusInterval == 100     \* run(): current_time - last_status_time >= 10
DefaultFrames == 4        \* create_default_animation: range(4)
TopSorted == 10           \* get_top_processes: len(processes) >= 10
TopShown == 3             \* get_top_processes: processes[:3]
KB == 1024                \* update_network_speeds: / 1024
TenthsPerSecond == 10     \* the unit of time of this model

-----------------------------------------------------------------------------
(* load_all_gifs, load_gif_frames, create_default_animation,               *)
(* create_error_animation.  An asset is what is found at <level>.gif:      *)
(* [kind |-> "missing"], [kind |-> "undecodable"] (Image.open raises),     *)
(* [kind |-> "broken", duration] (an exception after the duration is read) *)
(* or [kind |-> "gif", n_frames, duration], the duration in tenths.        *)

create_default_animation(level) ==
    [i \in 1..DefaultFrames |-> [kind |-> "default", label |-> level, i |-> i]]

create_error_animation == <<[kind |-> "error", label |-> "ERR", i |-> 1]>>

load_gif_frames(asset, level) ==
    IF asset.kind = "gif"
    THEN [i \in 1..asset.n_frames |-> [kind |-> "file", label |-> level, i |-> i]]
    ELSE create_error_animation

\* update_intervals['gif_frame'] after load_gif_frames on this asset
frame_duration(asset, before) ==
    IF asset.kind \in {"gif", "broken"} THEN asset.duration ELSE before

load_all_gifs(assets) ==
    [sets |-> [level \in Levels |->
                  IF assets[level].kind = "missing"
                  THEN create_default_animation(level)
                  ELSE load_gif_frames(assets[level], level)],
     gif_frame |-> frame_duration(assets["high"],
                       frame_duration(assets["medium"],
                           frame_duration(assets["low"], GifFrameDefault)))]

-----------------------------------------------------------------------------
(* The Metrics Source: what psutil, vcgencmd and os return when asked *)

Sources ==
    [cpu : env.cpu, mem : env.mem, disk : env.disk, temp : env.temp,
     load : env.load, pids : env.pids, table : env.table, raises : env.raises]

Counters == [bytes_sent : env.sent, bytes_recv : env.recv]

-----------------------------------------------------------------------------
(* get_top_processes *)

RECURSIVE SortByCpu(_)
SortByCpu(ps) ==
    IF ps = <<>> THEN <<>>
    ELSE LET i == CHOOSE j \in 1..Len(ps) :
                      /\ \A k \in 1..Len(ps) : ps[k].cpu_percent <= ps[j].cpu_percent
                      /\ \A k \in 1..(j - 1) : ps[k].cpu_percent < ps[j].cpu_percent
         IN  <<ps[i]>> \o SortByCpu(SubSeq(ps, 1, i - 1) \o SubSeq(ps, i + 1, Len(ps)))

Busy(p) == p.cpu_percent > 0

get_top_processes(table) ==
    IF ~table.ok THEN <<>>
    ELSE LET busy == SelectSeq(table.v, Busy)
             some == SubSeq(busy, 1, IF Len(busy) < TopSorted THEN Len(busy) ELSE TopSorted)
             sorted == SortByCpu(some)
         IN  SubSeq(sorted, 1, IF Len(sorted) < TopShown THEN Len(sorted) ELSE TopShown)

-----------------------------------------------------------------------------
(* update_network_speeds *)

\* (bytes_diff / time_diff) / 1024 with time_diff in tenths, in whole KB/s
\* (rounded down: a negative rate stays negative)
Rate(bytes_diff, time_diff) == (bytes_diff * TenthsPerSecond) \div (time_diff * KB)

\* a variant of the gate that recomputes whenever the clock has moved on
NetDueAtOnce(t) == t - prev_net_time > 0

\* current_time - self.prev_net_time >= self.update_intervals['network']
NetDue(t) == t - prev_net_time >= NetworkInterval

\* t: the reading of time.time(); net: what psutil.net_io_counters() returns if asked.
\* The result: the four fields of self after the call, and time_diff, the divisor
\* of the rates (Never when they are not recomputed)
update_network_speeds(t, net) ==
    IF NetDue(t)
    THEN [io |-> net, time |-> t,
          up |-> Rate(net.bytes_sent - prev_net_io.bytes_sent, t - prev_net_time),
          down |-> Rate(net.bytes_recv - prev_net_io.bytes_recv, t - prev_net_time),
          time_diff |-> t - prev_net_time]
    ELSE [io |-> prev_net_io, time |-> prev_net_time,
          up |-> net_up_speed, down |-> net_down_speed, time_diff |-> Never]

-----------------------------------------------------------------------------
(* get_system_stats *)

\* self.cached_stats and current_time - self.last_stats_update < 1.0
StatsCached(t) == cached_stats # None /\ t - last_stats_update < StatsInterval

\* a variant of the disk test with the interval of the stats bundle
DiskStaleSoon(t) == "disk_total_gb" \notin attrs \/ t - last_stats_update > StatsInterval

\* not hasattr(self, 'disk_total_gb') or current_time - self.last_stats_update > 30
DiskStale(t) == "disk_total_gb" \notin attrs \/ t - last_stats_update > DiskInterval

TempStale(t) == "cpu_temp" \notin attrs \/ t - last_stats_update > TempInterval

ProcStale(t) == "process_count" \notin attrs \/ t - last_stats_update > ProcInterval

disk_usage(d) ==
    [disk_total_gb |-> d.total, disk_free_gb |-> d.free,
     disk_percent |-> (d.used * 100) \div d.total]

\* The calls of the Metrics Source that are not inside a try/except, in the order
\* get_system_stats makes them: 1 cpu_percent, 2 virtual_memory, 3 disk_usage (when
\* the disk is stale), 5 net_io_counters (when the rates are due), 7 pids (when the
\* process count is stale).  FailsAt is the first of them that raises in a call at
\* reading t whose update_network_speeds reads tn, NoFailure when none does.
NoFailure == 9

FailsAt(t, src, tn) ==
    IF src.raises = "cpu" THEN 1
    ELSE IF src.raises = "memory" THEN 2
    ELSE IF src.raises = "disk" /\ DiskStale(t) THEN 3
    ELSE IF src.raises = "net" /\ NetDue(tn) THEN 5
    ELSE IF src.raises = "pids" /\ ProcStale(t) THEN 7
    ELSE NoFailure

\* the network fields as they are, when update_network_speeds is not reached
NetKept ==
    [io |-> prev_net_io, time |-> prev_net_time, up |-> net_up_speed,
     down |-> net_down_speed, time_diff |-> Never]

\* get_system_stats past the cache test, the exception (if any) raised at step at:
\* what was assigned before the exception stays assigned
Sampled(t, src, net, tn, at) ==
    LET disk2 == IF at > 3 /\ DiskStale(t) THEN disk_usage(src.disk) ELSE disk
        temp2 == IF at > 3 /\ TempStale(t)
                 THEN (IF src.temp.ok THEN src.temp.v ELSE 0)
                 ELSE cpu_temp
        net2 == IF at > 5 THEN update_network_speeds(tn, net) ELSE NetKept
        procs2 == IF at > 7 /\ ProcStale(t) THEN src.pids ELSE process_count
        onpage == info_pages[current_info_page + 1] = "processes"
    IN  [cached_stats |->
             IF at # NoFailure THEN cached_stats
             ELSE [cpu_percent |-> src.cpu,
                   memory_percent |-> src.mem,
                   disk_percent |-> disk2.disk_percent,
                   disk_free_gb |-> disk2.disk_free_gb,
                   disk_total_gb |-> disk2.disk_total_gb,
                   cpu_temp |-> temp2,
                   net_up_speed |-> net2.up,
                   net_down_speed |-> net2.down,
                   load_avg |-> IF src.load.ok THEN src.load.v ELSE 0,
                   process_count |-> procs2,
                   top_processes |-> IF onpage THEN get_top_processes(src.table)
                                     ELSE <<>>],
         last_stats_update |-> IF at # NoFailure THEN last_stats_update ELSE t,
         disk |-> disk2, cpu_temp |-> temp2, process_count |-> procs2,
         attrs |-> attrs \cup (IF at > 3 THEN {"disk_total_gb", "cpu_temp"} ELSE {})
                         \cup (IF at > 7 THEN {"process_count"} ELSE {}),
         net |-> net2,
         queried |-> (IF at = NoFailure THEN {"bundle"} ELSE {})
                     \cup (IF at > 3 /\ DiskStale(t) THEN {"disk"} ELSE {})
                     \cup (IF at > 3 /\ TempStale(t) THEN {"temp"} ELSE {})
                     \cup (IF at > 7 /\ ProcStale(t) THEN {"procs"} ELSE {})
                     \cup (IF at > 5 /\ NetDue(tn) THEN {"net"} ELSE {})
                     \cup (IF at = NoFailure /\ onpage THEN {"top"} ELSE {}),
         net_call |-> IF at > 5
                      THEN [now |-> tn, io |-> net, time_diff |-> net2.time_diff]
                      ELSE None,
         now |-> t,
         raised |-> at # NoFailure]

\* t: the reading at the start of the call; src, net: what the Metrics Source
\* returns where it is asked; tn: the reading inside update_network_speeds.
\* The result: the fields of self after the call (the snapshot returned is
\* cached_stats), with the groups queried, the call of update_network_speeds and
\* whether the call raised.
get_system_stats(t, src, net, tn) ==
    IF StatsCached(t)
    THEN [cached_stats |-> cached_stats,
          last_stats_update |-> last_stats_update, disk |-> disk,
          cpu_temp |-> cpu_temp, process_count |-> process_count, attrs |-> attrs,
          net |-> NetKept, queried |-> {}, net_call |-> None, now |-> t,
          raised |-> FALSE]
    ELSE Sampled(t, src, net, tn, FailsAt(t, src, tn))

\* the fields of self, and the history, after a call of get_system_stats that ended as r
Stored(r) ==
    /\ cached_stats' = r.cached_stats
    /\ last_stats_update' = r.last_stats_update
    /\ disk' = r.disk
    /\ cpu_temp' = r.cpu_temp
    /\ process_count' = r.process_count
    /\ attrs' = r.attrs
    /\ prev_net_io' = r.net.io
    /\ prev_net_time' = r.net.time
    /\ net_up_speed' = r.net.up
    /\ net_down_speed' = r.net.down
    /\ sampled_at' = [g \in {"disk", "temp", "procs", "top"} |->
                         IF g \in r.queried THEN r.now ELSE sampled_at[g]]

-----------------------------------------------------------------------------
(* draw_dynamic_gif and draw_info_panel *)

ReclassifyDue(t, lsu) == t - lsu >= StatsInterval

\* a variant of the frame test that goes by the distance of the two readings
FrameDueApart(t) == t - last_frame_time >= gif_frame \/ last_frame_time - t >= gif_frame

\* current_time - self.last_frame_time >= self.update_intervals['gif_frame']
FrameDue(t) == t - last_frame_time >= gif_frame

\* a variant of the reset that keeps the index of the previous set
KeepFrame(frame) == frame

\* self.current_frame = 0 when the level changes
AfterLevelChange(frame) == 0

\* t: the reading of time.time(); stats: the snapshot; lsu: self.last_stats_update
draw_dynamic_gif(t, stats, lsu) ==
    LET level == IF ReclassifyDue(t, lsu) THEN determine_usage_level(stats)
                 ELSE current_usage_level
        frame1 == IF level # current_usage_level THEN AfterLevelChange(current_frame)
                  ELSE current_frame
        advance == gif_sets[level] # <<>> /\ FrameDue(t)
        frame2 == IF advance THEN (frame1 + 1) % Len(gif_sets[level]) ELSE frame1
    IN  [level |-> level, frame |-> frame2,
         last_frame_time |-> IF advance THEN t ELSE last_frame_time,
         \* current_gif_set[self.current_frame]: Never when the set is empty
         index |-> IF gif_sets[level] = <<>> THEN Never ELSE frame2,
         \* IndexError
         raised |-> gif_sets[level] # <<>> /\ ~(frame2 < Len(gif_sets[level]))]

\* a variant of the rotation that turns the page after the stats interval
PageDueSoon(t) == t - page_change_time >= StatsInterval

\* current_time - self.page_change_time >= self.update_intervals['page_rotate']
PageDue(t) == t - page_change_time >= PageRotate

\* a variant of the rotation that moves two pages on
SkipPage(page) == (page + 2) % Len(info_pages)

\* (self.current_info_page + 1) % len(self.info_pages)
NextPage(page) == (page + 1) % Len(info_pages)

draw_info_panel(t) ==
    IF PageDue(t)
    THEN [page |-> NextPage(current_info_page), page_change_time |-> t]
    ELSE [page |-> current_info_page, page_change_time |-> page_change_time]

-----------------------------------------------------------------------------
(* update_display and run *)

NoCalls ==
    [stats |-> Never, net |-> None, gif |-> Never, page |-> Never, queried |-> {},
     src |-> None]

\* in the history: what the Metrics Source held when get_system_stats asked it
Asked(r, src) == IF r.queried = {} /\ ~r.raised THEN None ELSE src

\* what the Metrics Source may return to a call of get_system_stats at reading t,
\* and how long the sampling may take; nothing is asked when the cache answers
Answers(t) ==
    IF StatsCached(t)
    THEN {[src |-> CHOOSE s \in Sources : TRUE, net |-> prev_net_io, took |-> 0]}
    ELSE [src : Sources, net : Counters, took : env.block]

\* one render tick: get_system_stats, draw_notification_bar, draw_dynamic_gif,
\* draw_info_panel, each reading the clock for itself: draw_dynamic_gif reads it
\* dg after get_system_stats returned (draw_notification_bar runs in between),
\* draw_info_panel dp after that
update_display ==
    /\ pc = "tick"
    /\ \E a \in Answers(clock), dg \in env.bar, dp \in env.gif :
         \E r \in {get_system_stats(clock, a.src, a.net, clock + a.took)} :
         IF r.raised
         THEN \* the exception leaves update_display and run(), which catches
              \* KeyboardInterrupt only
              /\ Stored(r)
              /\ pc' = "crashed"
              /\ clock' = clock + a.took
              /\ calls' = [NoCalls EXCEPT !.stats = clock, !.net = r.net_call,
                                          !.queried = r.queried,
                                          !.src = Asked(r, a.src)]
              /\ UNCHANGED <<current_usage_level, current_frame, last_frame_time,
                             current_info_page, page_change_time, drawn, device>>
         ELSE
         \E g \in {draw_dynamic_gif(clock + a.took + dg, r.cached_stats, r.last_stats_update)} :
         \E p \in {draw_info_panel(clock + a.took + dg + dp)} :
             /\ Stored(r)
             /\ current_usage_level' = g.level
             /\ current_frame' = g.frame
             /\ last_frame_time' = g.last_frame_time
             /\ IF g.raised
                THEN /\ pc' = "crashed"
                     /\ device' = device
                     /\ clock' = clock + a.took + dg
                     /\ drawn' = [level |-> g.level, frame |-> g.index, page |-> "",
                                  stats |-> r.cached_stats,
                                  was |-> [level |-> current_usage_level,
                                           frame |-> current_frame,
                                           page |-> current_info_page,
                                           page_change_time |-> page_change_time]]
                     /\ calls' = [stats |-> clock, net |-> r.net_call,
                                  gif |-> clock + a.took + dg,
                                  page |-> Never, queried |-> r.queried,
                                  src |-> Asked(r, a.src)]
                     /\ UNCHANGED <<current_info_page, page_change_time>>
                ELSE /\ pc' = "status"
                     /\ device' = [device EXCEPT !.shown = "frame"]
                     /\ clock' = clock + a.took + dg + dp
                     /\ current_info_page' = p.page
                     /\ page_change_time' = p.page_change_time
                     /\ drawn' = [level |-> g.level, frame |-> g.index,
                                  page |-> info_pages[p.page + 1],
                                  stats |-> r.cached_stats,
                                  was |-> [level |-> current_usage_level,
                                           frame |-> current_frame,
                                           page |-> current_info_page,
                                           page_change_time |-> page_change_time]]
                     /\ calls' = [stats |-> clock, net |-> r.net_call,
                                  gif |-> clock + a.took + dg,
                                  page |-> clock + a.took + dg + dp,
                                  queried |-> r.queried, src |-> Asked(r, a.src)]
    /\ UNCHANGED <<gif_sets, gif_frame, last_status_time, gif_directory, stopping, env>>

\* run(): the status report after update_display, every 10 seconds
status_report ==
    /\ pc = "status"
    /\ IF clock - last_status_time >= StatusInterval
       THEN \E a \in Answers(clock) :
            \E r \in {get_system_stats(clock, a.src, a.net, clock + a.took)} :
                /\ Stored(r)
                /\ last_status_time' = IF r.raised THEN last_status_time ELSE clock
                /\ clock' = clock + a.took
                /\ calls' = [NoCalls EXCEPT !.stats = clock, !.net = r.net_call,
                                            !.queried = r.queried,
                                            !.src = Asked(r, a.src)]
                /\ pc' = IF r.raised THEN "crashed" ELSE "sleep"
       ELSE /\ calls' = NoCalls
            /\ pc' = "sleep"
            /\ UNCHANGED <<cached_stats, last_stats_update, disk, cpu_temp, process_count,
                           attrs, prev_net_io, prev_net_time, net_up_speed, net_down_speed,
                           sampled_at, last_status_time, clock>>
    /\ UNCHANGED <<gif_sets, gif_frame, current_usage_level, current_frame,
                   last_frame_time, current_info_page, page_change_time, drawn,
                   gif_directory, device, stopping, env>>

\* time.sleep(0.1): the next reading of the clock is later by the time slept, or by
\* more when the process is held up; it is earlier when the wall clock is set back
sleep ==
    /\ pc = "sleep"
    /\ \E d \in env.sleep :
         /\ clock + d >= 0
         /\ clock + d <= env.max_clock
         /\ clock' = clock + d
    /\ pc' = "tick"
    /\ calls' = NoCalls
    /\ UNCHANGED <<gif_sets, gif_frame, current_usage_level, current_frame,
                   last_frame_time, current_info_page, page_change_time, prev_net_io,
                   prev_net_time, net_up_speed, net_down_speed, cached_stats,
                   last_stats_update, disk, cpu_temp, process_count, attrs,
                   last_status_time, drawn, sampled_at, gif_directory, device,
                   stopping, env>>

Next == update_display \/ status_report \/ sleep

-----------------------------------------------------------------------------
(* __init__, up to the first iteration of run() *)

StartClock == 1000        \* the reading of the clock in __init__
MaxTicks == 45            \* the readings a run covers after StartClock

\* the state after __init__ and the first lines of run(), in environment e
Constructed(e) ==
    /\ env = e
    /\ clock = StartClock
    /\ gif_directory \in e.assets
    /\ gif_sets = load_all_gifs(gif_directory).sets
    /\ gif_frame = load_all_gifs(gif_directory).gif_frame
    /\ current_frame = 0
    /\ last_frame_time = 0
    /\ current_info_page = 0
    /\ page_change_time = StartClock
    /\ prev_net_io \in [bytes_sent : e.sent, bytes_recv : e.recv]
    /\ prev_net_time = StartClock
    /\ net_up_speed = 0
    /\ net_down_speed = 0
    /\ last_stats_update = 0
    /\ disk = [disk_total_gb |-> 0, disk_free_gb |-> 0, disk_percent |-> 0]
    /\ cpu_temp = 0
    /\ process_count = 0
    /\ attrs = {}
    /\ last_status_time = StartClock
    /\ drawn = None
    /\ calls = NoCalls
    /\ sampled_at = [g \in {"disk", "temp", "procs", "top"} |-> Never]
    /\ device = [shown |-> "nothing", cleaned |-> FALSE]
    /\ stopping = [interrupts |-> 0, renders |-> 0]

\* run(): KeyboardInterrupt.  An interrupt in the try block takes run() to the
\* except clause: the goodbye render, time.sleep(1), self.device.cleanup().
interrupt ==
    /\ pc \in {"tick", "status", "sleep"}
    /\ pc' = "goodbye"
    /\ stopping' = [stopping EXCEPT !.interrupts = @ + 1]
    /\ calls' = NoCalls
    /\ UNCHANGED <<clock, gif_sets, gif_frame, current_usage_level, current_frame,
                   last_frame_time, current_info_page, page_change_time, prev_net_io,
                   prev_net_time, net_up_speed, net_down_speed, cached_stats,
                   last_stats_update, disk, cpu_temp, process_count, attrs,
                   last_status_time, drawn, sampled_at, gif_directory, device, env>>

\* with canvas(self.device) as draw: the rectangle and "BYE!"
goodbye ==
    /\ pc = "goodbye"
    /\ pc' = "pause"
    /\ device' = [device EXCEPT !.shown = "bye"]
    /\ stopping' = [stopping EXCEPT !.renders = @ + 1]
    /\ UNCHANGED <<clock, gif_sets, gif_frame, current_usage_level, current_frame,
                   last_frame_time, current_info_page, page_change_time, prev_net_io,
                   prev_net_time, net_up_speed, net_down_speed, cached_stats,
                   last_stats_update, disk, cpu_temp, process_count, attrs,
                   last_status_time, drawn, calls, sampled_at, gif_directory, env>>

\* time.sleep(1)
pause ==
    /\ pc = "pause"
    /\ pc' = "cleanup"
    /\ clock' = clock + TenthsPerSecond
    /\ UNCHANGED <<gif_sets, gif_frame, current_usage_level, current_frame,
                   last_frame_time, current_info_page, page_change_time, prev_net_io,
                   prev_net_time, net_up_speed, net_down_speed, cached_stats,
                   last_stats_update, disk, cpu_temp, process_count, attrs,
                   last_status_time, drawn, calls, sampled_at, gif_directory, device,
                   stopping, env>>

\* self.device.cleanup(), after which run() returns
cleanup ==
    /\ pc = "cleanup"
    /\ pc' = "stopped"
    /\ device' = [device EXCEPT !.cleaned = TRUE]
    /\ UNCHANGED <<clock, gif_sets, gif_frame, current_usage_level, current_frame,
                   last_frame_time, current_info_page, page_change_time, prev_net_io,
                   prev_net_time, net_up_speed, net_down_speed, cached_stats,
                   last_stats_update, disk, cpu_temp, process_count, attrs,
                   last_status_time, drawn, calls, sampled_at, gif_directory,
                   stopping, env>>

\* a KeyboardInterrupt inside the except clause: nothing catches it, it leaves run()
interrupt_again ==
    /\ pc \in {"goodbye", "pause", "cleanup"}
    /\ pc' = "aborted"
    /\ stopping' = [stopping EXCEPT !.interrupts = @ + 1]
    /\ UNCHANGED <<clock, gif_sets, gif_frame, current_usage_level, current_frame,
                   last_frame_time, current_info_page, page_change_time, prev_net_io,
                   prev_net_time, net_up_speed, net_down_speed, cached_stats,
                   last_stats_update, disk, cpu_temp, process_count, attrs,
                   last_status_time, drawn, calls, sampled_at, gif_directory, device,
                   env>>

NextRun ==
    \/ update_display \/ status_report \/ sleep
    \/ interrupt \/ goodbye \/ pause \/ cleanup \/ interrupt_again

\* The loop without an end.  The program uses readings of the clock only in
\* differences now - t with a stored reading t, compared with intervals of at most
\* DiskInterval; so after the sleep the origin of the clock is moved to make the
\* next reading StartClock again, and a stored reading older than AgeCap is kept
\* at that age.
AgeCap == DiskInterval + 1

Shifted(t, shift) ==
    IF t = Never THEN Never
    ELSE IF t - shift < StartClock - AgeCap THEN StartClock - AgeCap
    ELSE t - shift

\* time.sleep(0.1) in the loop without an end
sleep_on ==
    /\ pc = "sleep"
    /\ \E d \in env.sleep :
       \E shift \in {clock + d - StartClock} :
         /\ clock' = StartClock
         /\ last_frame_time' = Shifted(last_frame_time, shift)
         /\ page_change_time' = Shifted(page_change_time, shift)
         /\ prev_net_time' = Shifted(prev_net_time, shift)
         /\ last_stats_update' = Shifted(last_stats_update, shift)
         /\ last_status_time' = Shifted(last_status_time, shift)
         /\ sampled_at' = [g \in DOMAIN sampled_at |-> Shifted(sampled_at[g], shift)]
         /\ drawn' = [drawn EXCEPT !.was.page_change_time = Shifted(@, shift)]
    /\ pc' = "tick"
    /\ calls' = NoCalls
    /\ UNCHANGED <<gif_sets, gif_frame, current_usage_level, current_frame,
                   current_info_page, prev_net_io, net_up_speed, net_down_speed,
                   cached_stats, disk, cpu_temp, process_count, attrs,
                   gif_directory, device, stopping, env>>

NextForever == update_display \/ status_report \/ sleep_on

-----------------------------------------------------------------------------
(* The environments of the runs checked *)

Missing == [kind |-> "missing"]
Undecodable == [kind |-> "undecodable"]
Broken == [kind |-> "broken", duration |-> 2]
ShortGif == [kind |-> "gif", n_frames |-> 2, duration |-> 3]
LongGif == [kind |-> "gif", n_frames |-> 3, duration |-> 1]

OneDisk == [total |-> 32, used |-> 8, free |-> 24]
FullerDisk == [total |-> 32, used |-> 16, free |-> 16]
Burst == 450 * KB         \* bytes sent in one second at 450 KB/s

\* the render loop at its own pace: the load changes, the slow metrics do not
RenderEnv ==
    [cpu |-> {35, 100}, mem |-> {70}, disk |-> {OneDisk}, temp |-> {Ok(45)},
     load |-> {Ok(1)}, pids |-> {90}, table |-> {Ok(<<>>)}, raises |-> {"none"},
     sent |-> {0, Burst, 2 * Burst}, recv |-> {0}, up |-> {0}, down |-> {0},
     assets |-> {[low |-> LongGif, medium |-> ShortGif, high |-> Undecodable]},
     block |-> {1}, bar |-> {0, 1}, gif |-> {0}, sleep |-> {1},
     max_clock |-> StartClock + MaxTicks]

Init ==
    /\ Constructed(RenderEnv)
    /\ pc = "tick"
    /\ current_usage_level = "low"
    /\ cached_stats = None

Spec == Init /\ [][Next]_vars

\* the slow metrics change; the loop is held up for seconds, or for longer than
\* the disk interval
CacheEnv ==
    [RenderEnv EXCEPT !.cpu = {35}, !.sent = {0}, !.disk = {OneDisk, FullerDisk},
                      !.temp = {Ok(45), Ok(60)}, !.bar = {0},
                      !.sleep = {25, DiskInterval + 10},
                      !.max_clock = StartClock + 2 * DiskInterval + MaxTicks]

InitCache ==
    /\ Constructed(CacheEnv)
    /\ pc = "tick"
    /\ current_usage_level = "low"
    /\ cached_stats = None

SpecCache == InitCache /\ [][Next]_vars

\* every combination of what is found at low.gif, medium.gif and high.gif
AssetEnv ==
    [RenderEnv EXCEPT !.cpu = {100}, !.sent = {0},
                      !.assets = [Levels -> {Missing, Undecodable, Broken, ShortGif, LongGif}],
                      !.max_clock = StartClock + StatsInterval]

InitAssets ==
    /\ Constructed(AssetEnv)
    /\ pc = "tick"
    /\ current_usage_level = "low"
    /\ cached_stats = None

SpecAssets == InitAssets /\ [][Next]_vars

\* the loop without an end, at its own pace or held up for two rotation intervals:
\* render ticks keep occurring and every sleep advances the clock
PageEnv ==
    [RenderEnv EXCEPT !.cpu = {35}, !.sent = {0}, !.bar = {0},
                      !.sleep = {5, 2 * PageRotate}]

InitPages ==
    /\ Constructed(PageEnv)
    /\ pc = "tick"
    /\ current_usage_level = "low"
    /\ cached_stats = None

SpecPages == InitPages /\ [][NextForever]_vars /\ WF_vars(NextForever)

\* a process table with more busy processes than are shown, and an idle one
Table ==
    <<[pid |-> 1, name |-> "init", cpu_percent |-> 0],
      [pid |-> 7, name |-> "sshd", cpu_percent |-> 5],
      [pid |-> 8, name |-> "python3", cpu_percent |-> 20],
      [pid |-> 9, name |-> "nginx", cpu_percent |-> 5],
      [pid |-> 12, name |-> "cron", cpu_percent |-> 10]>>

\* ticks 0.1 s and a page interval apart, long enough to come to the processes page
ProcEnv ==
    [RenderEnv EXCEPT !.cpu = {35}, !.sent = {0}, !.bar = {0},
                      !.table = {Ok(Table)}, !.sleep = {1, PageRotate},
                      !.max_clock = StartClock + 3 * PageRotate + MaxTicks]

InitProcs ==
    /\ Constructed(ProcEnv)
    /\ pc = "tick"
    /\ current_usage_level = "low"
    /\ cached_stats = None

SpecProcs == InitProcs /\ [][Next]_vars

\* run() with its ends: interrupts arrive at any time, psutil.cpu_percent may raise
RunEnv ==
    [RenderEnv EXCEPT !.cpu = {35}, !.sent = {0}, !.bar = {0},
                      !.raises = {"none", "cpu"}, !.sleep = {4, 9}]

InitRun ==
    /\ Constructed(RunEnv)
    /\ pc = "tick"
    /\ current_usage_level = "low"
    /\ cached_stats = None

SpecRun == InitRun /\ [][NextRun]_vars

\* the calls of the Metrics Source may fail
FailEnv ==
    [RenderEnv EXCEPT !.cpu = {35}, !.sent = {0}, !.bar = {0},
                      !.temp = {Ok(45), Failed}, !.load = {Ok(1), Failed},
                      !.table = {Ok(<<>>), NoTable},
                      !.raises = {"none", "cpu", "memory", "disk", "net", "pids"},
                      !.sleep = {9}]

InitFail ==
    /\ Constructed(FailEnv)
    /\ pc = "tick"
    /\ current_usage_level = "low"
    /\ cached_stats = None

SpecFail == InitFail /\ [][Next]_vars

\* the network counters move, also backwards (an interface reset), and the wall
\* clock is set back while get_system_stats samples
NetEnv ==
    [RenderEnv EXCEPT !.cpu = {35}, !.sent = {10, 1000}, !.recv = {0, 20 * KB},
                      !.block = {1, 0 - 12}, !.bar = {0}, !.sleep = {4, 9}]

InitNet ==
    /\ Constructed(NetEnv)
    /\ pc = "tick"
    /\ current_usage_level = "low"
    /\ cached_stats = None

SpecNet == InitNet /\ [][Next]_vars

-----------------------------------------------------------------------------
(* determine_usage_level on its own: any snapshot, any previous level *)

ClassifyEnv ==
    [RenderEnv EXCEPT !.cpu = {0, 15, 35, 50, 70, 85, 100},
                      !.mem = {20, 50, 70, 90, 95},
                      !.up = {0, 200, 450, 700, 1200},
                      !.down = {0, 300, 500},
                      !.sent = {0},
                      !.assets = {[level \in Levels |-> Missing]}]

\* the snapshots with the load of environment e
Snapshots(e) ==
    {[cpu_percent |-> c, memory_percent |-> m, disk_percent |-> 25,
      disk_free_gb |-> 24, disk_total_gb |-> 32, cpu_temp |-> 45,
      net_up_speed |-> u, net_down_speed |-> d, load_avg |-> 1,
      process_count |-> 90, top_processes |-> <<>>] :
        c \in e.cpu, m \in e.mem, u \in e.up, d \in e.down}

InitClassify ==
    /\ Constructed(ClassifyEnv)
    /\ pc = "classify"
    /\ current_usage_level \in Levels
    /\ cached_stats \in Snapshots(ClassifyEnv)

classify ==
    /\ pc = "classify"
    /\ current_usage_level' = determine_usage_level(cached_stats)
    /\ cached_stats' \in Snapshots(env)
    /\ UNCHANGED <<clock, pc, gif_sets, gif_frame, current_frame, last_frame_time,
                   current_info_page, page_change_time, prev_net_io, prev_net_time,
                   net_up_speed, net_down_speed, last_stats_update, disk, cpu_temp,
                   process_count, attrs, last_status_time, drawn, calls, sampled_at,
                   gif_directory, device, stopping, env>>

SpecClassify == InitClassify /\ [][classify]_vars

-----------------------------------------------------------------------------
(* The claims *)

Min(a, b) == IF a < b THEN a ELSE b

\* 3000 * avg for the avg of the specification:
\* avg = (min(cpu/100, 1) + min(mem/100, 1) + min((up + down)/1000, 1)) / 3
Avg3000(stats) ==
    Min(stats.cpu_percent * 10, 1000) + Min(stats.memory_percent * 10, 1000)
        + Min(stats.net_up_speed + stats.net_down_speed, 1000)

\* the level the specification gives a snapshot after the level previous
ClaimedLevel(stats, previous) ==
    IF Avg3000(stats) >= 2100 \/ (previous = "high" /\ Avg3000(stats) >= 1500)
    THEN "high"
    ELSE IF Avg3000(stats) >= 1200 \/ (previous = "medium" /\ Avg3000(stats) >= 900)
    THEN "medium"
    ELSE "low"

\* C1: determine_usage_level returns the level of the specification's rule: high if
\* avg >= 0.70 or (previous high and avg >= 0.50), else medium if avg >= 0.40 or
\* (previous medium and avg >= 0.30), else low, a value on a threshold meeting it.
C1_Claim ==
    [][pc = "classify" =>
         current_usage_level' = ClaimedLevel(cached_stats, current_usage_level)]_vars

\* C2: hysteresis over a run: in a render tick that starts with the level high and
\* whose snapshot has avg >= 0.50 the level stays high, and in a tick that starts
\* with the level low a snapshot with avg in [0.50, 0.70) does not make it high.
C2_Claim ==
    [][pc = "tick" =>
         /\ (current_usage_level = "high" /\ Avg3000(cached_stats') >= 1500
                => current_usage_level' = "high")
         /\ (current_usage_level = "low" /\ Avg3000(cached_stats') >= 1500
                                         /\ Avg3000(cached_stats') < 2100
                => current_usage_level' # "high")]_vars

\* C3: in every render tick the level that picks the animation set is the result of
\* determine_usage_level on that tick's snapshot with the level before the tick.
C3_Claim ==
    [][pc = "tick" => current_usage_level' = determine_usage_level(cached_stats')]_vars

\* C8: in a render tick in which the usage level changes, the frame index drawn is 0.
C8_Claim ==
    [][pc = "tick" /\ current_usage_level' # current_usage_level
         => drawn'.frame = 0]_vars

\* C9: the index draw_dynamic_gif uses on the active animation set is at least 0 and
\* below the length of that set (an IndexError would leave the index it failed on
\* in drawn.frame).
C9_Claim ==
    drawn # None => /\ drawn.frame >= 0
                    /\ drawn.frame < Len(gif_sets[drawn.level])
                    /\ drawn.frame = current_frame
                    /\ drawn.level = current_usage_level

\* a tick changed the level from medium, at index 1 of its two frames, to high, whose
\* set has one frame
C9_Witness ==
    /\ drawn # None
    /\ drawn.was.level = "medium"
    /\ drawn.was.frame = 1
    /\ drawn.level = "high"
    /\ Len(gif_sets["high"]) = 1

\* C6: in every reachable state net_up_speed >= 0 and net_down_speed >= 0 (a counter
\* lower than the stored one gives the rate 0).
C6_Claim == net_up_speed >= 0 /\ net_down_speed >= 0

\* C7: a call of update_network_speeds at reading now recomputes the rates exactly
\* when now - prev_net_time >= 1.0; then the divisor is that difference, at least
\* 1.0, and prev_net_io and prev_net_time become the counters and the reading just
\* used; otherwise the two rates, prev_net_io and prev_net_time stay as they are.
C7_Claim ==
    [][calls'.net # None =>
         IF calls'.net.now - prev_net_time >= NetworkInterval
         THEN /\ calls'.net.time_diff = calls'.net.now - prev_net_time
              /\ calls'.net.time_diff >= TenthsPerSecond
              /\ prev_net_io' = calls'.net.io
              /\ prev_net_time' = calls'.net.now
         ELSE /\ calls'.net.time_diff = Never
              /\ UNCHANGED <<net_up_speed, net_down_speed, prev_net_io,
                             prev_net_time>>]_vars

\* update_network_speeds has just recomputed the rates from counters that moved
C7_Witness ==
    /\ calls.net # None
    /\ calls.net.time_diff >= NetworkInterval
    /\ prev_net_time = calls.net.now
    /\ prev_net_io = calls.net.io
    /\ net_down_speed > 0

\* update_network_speeds was called at a reading earlier than prev_net_time and
\* left the rates alone
C7_ClockSetBack ==
    /\ calls.net # None
    /\ calls.net.now < prev_net_time
    /\ calls.net.time_diff = Never

\* the interval the specification gives each slow group
GroupInterval(g) ==
    IF g = "disk" THEN DiskInterval ELSE IF g = "temp" THEN TempInterval ELSE ProcInterval

\* C4: a call of get_system_stats that refreshes the snapshot at a reading at least
\* a slow group's interval (disk 30 s, temperature 5 s, process count 10 s) after
\* the call that last sampled the group asks the Metrics Source for that group.
C4_Claim ==
    [][\A g \in {"disk", "temp", "procs"} :
          /\ "bundle" \in calls'.queried
          /\ sampled_at[g] # Never
          /\ calls'.stats - sampled_at[g] >= GroupInterval(g)
          => g \in calls'.queried]_vars

\* C5: a call of get_system_stats less than 30 s after the call that populated the
\* disk values does not ask for the disk again: its snapshot has the populated
\* disk_percent, disk_free_gb and disk_total_gb.
C5_Claim ==
    [][/\ calls'.stats # Never
       /\ "disk_total_gb" \in attrs
       /\ calls'.stats - sampled_at.disk < DiskInterval
       => /\ "disk" \notin calls'.queried
          /\ disk' = disk
          /\ cached_stats'.disk_percent = disk.disk_percent
          /\ cached_stats'.disk_free_gb = disk.disk_free_gb
          /\ cached_stats'.disk_total_gb = disk.disk_total_gb]_vars

\* a call has refreshed the snapshot less than 30 s after the disk was sampled,
\* when the disk usage was no longer what the snapshot says
C5_Witness ==
    /\ "bundle" \in calls.queried
    /\ "disk" \notin calls.queried
    /\ calls.stats > sampled_at.disk
    /\ calls.stats - sampled_at.disk < DiskInterval
    /\ disk_usage(calls.src.disk) # disk
    /\ cached_stats.disk_percent = disk.disk_percent

\* C10: every change of current_info_page is a step to (current_info_page + 1) mod 4,
\* made by a render tick whose reading now has now - page_change_time >= 3.0, and
\* it sets page_change_time to now.
C10_Claim ==
    [][current_info_page' # current_info_page =>
         /\ pc = "tick"
         /\ current_info_page' = (current_info_page + 1) % 4
         /\ calls'.page - page_change_time >= 3 * TenthsPerSecond
         /\ page_change_time' = calls'.page]_vars

\* a tick that came several rotation intervals after the last page change has
\* moved the page by one step
C10_Witness ==
    /\ drawn # None
    /\ calls.page # Never
    /\ calls.page - drawn.was.page_change_time >= 3 * PageRotate
    /\ page_change_time = calls.page
    /\ drawn.was.page = 1
    /\ current_info_page = 2
    /\ drawn.page = "network"

\* the per-frame duration the animation set of an asset declares: that of the file
\* when it loaded, 0.1 s for a synthesized set
DeclaredDuration(asset) ==
    IF asset.kind = "gif" THEN asset.duration ELSE TenthsPerSecond \div 10

\* C12: in a render tick the frame advances exactly when the reading of the clock is
\* at least the per-frame duration declared by the active level's animation set
\* after last_frame_time.
C12_Claim ==
    [][pc = "tick" /\ pc' = "status" =>
         (last_frame_time' # last_frame_time
            <=> calls'.gif - last_frame_time
                  >= DeclaredDuration(gif_directory[current_usage_level']))]_vars

\* C18: after load_all_gifs every level has a non-empty frame sequence; a level whose
\* file is missing or does not decode has the 4-frame fallback loop with the level's
\* label; and the sequence of a level does not depend on the files of the others.
C18_Claim ==
    \A level \in Levels :
        /\ gif_sets[level] # <<>>
        /\ gif_directory[level].kind # "gif" =>
              /\ Len(gif_sets[level]) = 4
              /\ \A i \in 1..4 : gif_sets[level][i].label = level
        /\ \A other \in Levels \ {level} :
              gif_sets[level]
                = load_all_gifs([gif_directory EXCEPT ![other] = LongGif]).sets[level]

\* C11: no failure of a Metrics Source call halts the loop: run() is always in a
\* tick, in the status report or in the sleep of the loop.
C11_Claim == pc \in {"tick", "status", "sleep"}

\* C13: in a run where render ticks keep occurring and the clock keeps advancing,
\* each of the pages system, storage, network and processes is the page drawn
\* infinitely often.
C13_Claim ==
    /\ []<>(drawn # None /\ drawn.page = "system")
    /\ []<>(drawn # None /\ drawn.page = "storage")
    /\ []<>(drawn # None /\ drawn.page = "network")
    /\ []<>(drawn # None /\ drawn.page = "processes")

\* the rotation has come round: a tick moved the page from processes back to system
C13_Witness ==
    /\ drawn # None
    /\ drawn.was.page = 3
    /\ drawn.page = "system"
    /\ page_change_time = calls.page

\* C14: a call of get_system_stats at reading now, made while a cached snapshot exists
\* and now - last_stats_update < 1.0, returns the cached snapshot, asks the Metrics
\* Source nothing, does not call update_network_speeds and changes no field; any
\* other call samples the bundle again and sets last_stats_update to now.
C14_Claim ==
    [][calls'.stats # Never =>
         IF cached_stats # None /\ calls'.stats - last_stats_update < TenthsPerSecond
         THEN /\ calls'.queried = {}
              /\ calls'.net = None
              /\ pc = "tick" => drawn'.stats = cached_stats
              /\ UNCHANGED <<cached_stats, last_stats_update, disk, cpu_temp,
                             process_count, attrs, prev_net_io, prev_net_time,
                             net_up_speed, net_down_speed>>
         ELSE /\ "bundle" \in calls'.queried
              /\ last_stats_update' = calls'.stats
              /\ cached_stats'.cpu_percent = calls'.src.cpu
              /\ cached_stats'.memory_percent = calls'.src.mem]_vars

\* C15: within one render tick the clock value against which update_network_speeds,
\* the re-classification gate, the frame advance and the page rotation decide is the
\* one get_system_stats read: none of them uses a later reading.
C15_Claim ==
    [][pc = "tick" /\ pc' = "status" =>
         /\ calls'.gif = calls'.stats
         /\ calls'.page = calls'.stats
         /\ calls'.net # None => calls'.net.now = calls'.stats]_vars

\* C16: whenever run() has been left (it returned, an exception of a tick left it, or
\* a KeyboardInterrupt in the except clause did), device.cleanup() has been called.
C16_Claim == pc \in {"stopped", "crashed", "aborted"} => device.cleaned

\* C17: when run() has been left after an interrupt stopped the loop, exactly one
\* render has been performed since that interrupt, the goodbye frame; and whenever
\* the display has been released that render has been performed (before the
\* release) and the display shows it (no render after the release).
C17_Claim ==
    /\ pc \in {"stopped", "aborted"} => stopping.renders = 1 /\ device.shown = "bye"
    /\ device.cleaned => stopping.renders = 1 /\ device.shown = "bye"

\* the attribute of self that holds the cached value of a slow group
GroupAttr(g) ==
    IF g = "disk" THEN "disk_total_gb" ELSE IF g = "temp" THEN "cpu_temp" ELSE "process_count"

\* C19: last_stats_update, prev_net_time, last_frame_time and page_change_time never
\* decrease in any step, also when the clock reads an earlier value than before;
\* and a call that builds a snapshot takes each slow group (disk, temperature,
\* process count) either from a query of that call or from an attribute that
\* existed before it, and the network rates from the fields of self: the snapshot
\* holds the values self holds after the call.
C19_Claim ==
    [][/\ last_stats_update' >= last_stats_update
       /\ prev_net_time' >= prev_net_time
       /\ last_frame_time' >= last_frame_time
       /\ page_change_time' >= page_change_time
       /\ "bundle" \in calls'.queried =>
            /\ \A g \in {"disk", "temp", "procs"} :
                  g \in calls'.queried \/ GroupAttr(g) \in attrs
            /\ cached_stats'.disk_percent = disk'.disk_percent
            /\ cached_stats'.disk_free_gb = disk'.disk_free_gb
            /\ cached_stats'.disk_total_gb = disk'.disk_total_gb
            /\ cached_stats'.cpu_temp = cpu_temp'
            /\ cached_stats'.process_count = process_count'
            /\ cached_stats'.net_up_speed = net_up_speed'
            /\ cached_stats'.net_down_speed = net_down_speed']_vars

\* a tick whose clock was set back while get_system_stats built a snapshot from the
\* cached slow groups: draw_dynamic_gif and draw_info_panel read the clock earlier
\* than last_frame_time and page_change_time and left both alone
C19_Witness ==
    /\ "bundle" \in calls.queried
    /\ calls.queried \cap {"disk", "temp", "procs"} = {}
    /\ calls.gif # Never
    /\ calls.gif + gif_frame <= last_frame_time
    /\ calls.page # Never
    /\ calls.page < page_change_time
    /\ calls.gif < last_stats_update

\* C20: a tick that draws the processes page draws a snapshot that was built while
\* processes was the active page, so that its top_processes is the result of a
\* query of the process table made for that snapshot (at most 3 entries); and a
\* call of get_system_stats queries the process table only when the active page
\* is processes.
C20_Claim ==
    [][/\ pc = "tick" /\ pc' = "status" /\ drawn'.page = "processes" =>
            /\ sampled_at'.top = last_stats_update'
            /\ Len(drawn'.stats.top_processes) <= TopShown
       /\ "top" \in calls'.queried => info_pages[current_info_page + 1] = "processes"]_vars

=============================================================================
